---- MODULE Spec2Model ----
(***************************************************************************)
(* Model of snake_game_final.py: the Snake / Food simulation, the          *)
(* SnakeGame state machine with its main loop, and the ScoreManager        *)
(* leaderboard.  Rendering, audio and particles carry no simulation state  *)
(* and are left out, except for the one assignment _draw_leaderboard       *)
(* makes.                                                                  *)
(***************************************************************************)
EXTENDS Integers, Sequences, FiniteSets, TLC

VARIABLES
    state,                  \* SnakeGame.state (GameState values)
    current_difficulty,     \* SnakeGame.current_difficulty
    leaderboard_difficulty, \* SnakeGame.leaderboard_difficulty
    has_snake,              \* SnakeGame.snake / SnakeGame.food are not None
    positions,              \* Snake.positions, head first
    direction,              \* Snake.direction
    grow_pending,           \* Snake.grow_pending
    food_position,          \* Food.position
    score,                  \* SnakeGame.score (raw score)
    scores,                 \* ScoreManager.scores: difficulty -> list of entries
    file,                   \* the contents of high_scores.json
    now,                    \* the wall clock, in minutes (datetime.now())
    running,                \* the local of run(): result of _handle_events
    exited,                 \* the loop of run() has ended
    games,                  \* number of calls of _start_new_game so far
    ticks,                  \* number of counted steps of this process run
    adds,                   \* number of calls of add_score so far
    intent,                 \* history: last directional key since the last step
    last_step,              \* history: what the last call of Snake.move did
    last_add,               \* history: the last call of add_score
    respawn_call            \* the locals of a running call of Food.respawn

vars == << state, current_difficulty, leaderboard_difficulty, has_snake,
           positions, direction, grow_pending, food_position, score, scores,
           file, now, running, exited, games, ticks, adds, intent,
           last_step, last_add, respawn_call >>

----------------------------------------------------------------------------
(* Bounds of the model.  The grid of the program is 35 x 27 cells          *)
(* (GameConfig.GRID_WIDTH, GRID_HEIGHT); the model keeps the names and     *)
(* explores a small grid.                                                  *)

GRID_WIDTH == 3

GRID_HEIGHT == 3

\* Steps are not taken once the body would grow beyond this length.
MaxLen == 4

\* Sessions started per process run.
MaxGames == 2

\* Steps per process run, where the whole state machine is explored.
MaxTicks == 2

\* The clock runs from minute 0 to MaxMinute.
MaxMinute == 1

\* Calls of add_score per run of the leaderboard specification.
MaxAdds == 2

\* The leaderboard specification adds the scores 10, 20, ... up to
\* 10 * MaxScoreStep.
MaxScoreStep == 3

----------------------------------------------------------------------------
(* Program constants.                                                      *)

\* Food.respawn: while attempts < 100
MAX_ATTEMPTS == 100

\* _handle_food_eaten: self.score += 10
FOOD_SCORE == 10

Difficulties == {"EASY", "MEDIUM", "HARD"}

\* DifficultyManager.DIFFICULTIES: the multiplier, in tenths.
MultiplierTenths(name) ==
    CASE name = "EASY" -> 10
      [] name = "MEDIUM" -> 15
      [] name = "HARD" -> 20

\* DifficultyManager.get_config: unknown keys fall back to MEDIUM.
get_config(difficulty) ==
    IF difficulty \in Difficulties
    THEN [name |-> difficulty, multiplier10 |-> MultiplierTenths(difficulty)]
    ELSE [name |-> "MEDIUM", multiplier10 |-> MultiplierTenths("MEDIUM")]

Cells == (0 .. GRID_WIDTH - 1) \X (0 .. GRID_HEIGHT - 1)

UP == << 0, -1 >>
DOWN == << 0, 1 >>
LEFT == << -1, 0 >>
RIGHT == << 1, 0 >>
NoDir == << 0, 0 >>

Neg(d) == << d[1] * (-1), d[2] * (-1) >>

InSeq(x, s) == \E i \in 1 .. Len(s) : s[i] = x

----------------------------------------------------------------------------
(* Snake                                                                   *)

\* Snake.__init__
StartCell == << GRID_WIDTH \div 2, GRID_HEIGHT \div 2 >>

\* Variant of move that drops the tail on every step.
move_always_pop(pos, dir, grow) ==
    LET new_head == << pos[1][1] + dir[1], pos[1][2] + dir[2] >>
        inserted == << new_head >> \o pos
    IN  [positions |-> SubSeq(inserted, 1, Len(inserted) - 1),
         grow_pending |-> FALSE]

\* Variant of move that leaves grow_pending set after a growing step.
move_keeps_growing(pos, dir, grow) ==
    LET new_head == << pos[1][1] + dir[1], pos[1][2] + dir[2] >>
        inserted == << new_head >> \o pos
    IN  IF ~grow
        THEN [positions |-> SubSeq(inserted, 1, Len(inserted) - 1),
              grow_pending |-> grow]
        ELSE [positions |-> inserted, grow_pending |-> grow]

\* Snake.move: the new positions and grow_pending.
move(pos, dir, grow) ==
    LET new_head == << pos[1][1] + dir[1], pos[1][2] + dir[2] >>
        inserted == << new_head >> \o pos
    IN  IF ~grow
        THEN [positions |-> SubSeq(inserted, 1, Len(inserted) - 1),
              grow_pending |-> grow]
        ELSE [positions |-> inserted, grow_pending |-> FALSE]

\* Snake.change_direction: the new direction.
change_direction(dir, new_direction) ==
    IF Neg(new_direction) # dir THEN new_direction ELSE dir

\* Variant of the 'turn' sound that is played for every accepted request.
turn_sound_on_every_accept(dir, new_direction) ==
    Neg(new_direction) # dir

\* Snake.change_direction: whether play_sound('turn') is called.
turn_sound(dir, new_direction) ==
    Neg(new_direction) # dir /\ new_direction # dir

\* Variant of check_collision whose wall test is off by one.
check_collision_wall_off_by_one(pos) ==
    LET head_x == pos[1][1]
        head_y == pos[1][2]
    IN  IF head_x < 0 \/ head_x > GRID_WIDTH \/ head_y < 0 \/ head_y > GRID_HEIGHT
        THEN TRUE
        ELSE InSeq(pos[1], Tail(pos))

\* Variant of check_collision that tests the walls only.
check_collision_walls_only(pos) ==
    LET head_x == pos[1][1]
        head_y == pos[1][2]
    IN  head_x < 0 \/ head_x >= GRID_WIDTH \/ head_y < 0 \/ head_y >= GRID_HEIGHT

\* Variant of check_collision that tests the body only.
check_collision_body_only(pos) ==
    InSeq(pos[1], Tail(pos))

\* Variant of check_collision without the walls on the left and the right.
check_collision_open_sides(pos) ==
    LET head_y == pos[1][2]
    IN  IF head_y < 0 \/ head_y >= GRID_HEIGHT
        THEN TRUE
        ELSE InSeq(pos[1], Tail(pos))

\* Snake.check_collision
check_collision(pos) ==
    LET head_x == pos[1][1]
        head_y == pos[1][2]
    IN  IF head_x < 0 \/ head_x >= GRID_WIDTH \/ head_y < 0 \/ head_y >= GRID_HEIGHT
        THEN TRUE
        ELSE InSeq(pos[1], Tail(pos))

----------------------------------------------------------------------------
(* Food                                                                    *)

\* Food._generate_position: the cells random.randint can give.
generate_position == Cells

\* Food.respawn: the positions the food can have afterwards.  An attempt
\* samples a cell: a free cell is taken and ends the loop, an occupied one
\* costs an attempt.  The loop ends with a free cell at some attempt, or,
\* when every one of the MAX_ATTEMPTS - attempts samples was an occupied
\* cell, with the position left as it was.
respawn(position, snake_positions, attempts) ==
    LET free == { c \in generate_position : ~InSeq(c, snake_positions) }
        occupied == { c \in generate_position : InSeq(c, snake_positions) }
    IN  (IF attempts < MAX_ATTEMPTS THEN free ELSE {})
        \cup (IF occupied # {} \/ attempts >= MAX_ATTEMPTS
              THEN {position} ELSE {})

\* The locals of Food.respawn while a call runs: attempts, new_position
\* (the cell sampled last), and, as history, the position the food had when
\* the call began.  active is false outside a call and after its loop.
NoCell == << -1, -1 >>

NoCall ==
    [active |-> FALSE, attempts |-> 0, new_position |-> NoCell,
     before |-> NoCell]

----------------------------------------------------------------------------
(* ScoreManager                                                            *)

EmptyTable == [d \in Difficulties |-> << >>]

\* The file: whether it exists, whether its bytes decode as text (f.read()
\* inside json.load), whether it can be opened and parsed as JSON, and the
\* JSON document in it.
NoFile ==
    [exists |-> FALSE, decodable |-> FALSE, valid |-> FALSE, data |-> << >>]

\* json.dump of an int: its decimal digits.
RECURSIVE digits(_)
digits(n) ==
    IF n < 10 THEN << n >> ELSE Append(digits(n \div 10), n % 10)

\* json.load of a number without fraction or exponent: an int.
RECURSIVE number(_)
number(ds) ==
    IF ds = << >> THEN 0
    ELSE number(SubSeq(ds, 1, Len(ds) - 1)) * 10 + ds[Len(ds)]

\* json.dump of an entry: an object with the members score, player and
\* date, in the order add_score built the dict.
json_dump_entry(e) ==
    << << "score", digits(e.score) >>, << "player", e.player >>,
       << "date", e.date >> >>

\* The value of the last member named k of a JSON object.
member(obj, k) ==
    LET at == { i \in 1 .. Len(obj) : obj[i][1] = k }
    IN  obj[CHOOSE i \in at : \A j \in at : j <= i][2]

\* json.load of such an object: a dict.
json_load_entry(obj) ==
    [score |-> number(member(obj, "score")),
     player |-> member(obj, "player"),
     date |-> member(obj, "date")]

\* A difficulty key that DifficultyManager.DIFFICULTIES does not have.
UnknownKey == "EXPERT"

\* The order of the keys of ScoreManager.scores: that of the default table
\* of _load_scores, then a key add_score has inserted; json.dump and
\* json.load keep it.
KeyOrder == << "EASY", "MEDIUM", "HARD", UnknownKey >>

\* Variant of json_dump that leaves out the difficulties without entries.
json_dump_nonempty(table) ==
    LET in_table(k) == k \in DOMAIN table /\ table[k] # << >>
        keys == SelectSeq(KeyOrder, in_table)
    IN  [i \in 1 .. Len(keys) |->
            << keys[i], [j \in 1 .. Len(table[keys[i]]) |->
                            json_dump_entry(table[keys[i]][j])] >>]

\* json.dump(self.scores, f, indent=2): an object with one member per
\* difficulty, each an array of entry objects.
json_dump(table) ==
    LET in_table(k) == k \in DOMAIN table
        keys == SelectSeq(KeyOrder, in_table)
    IN  [i \in 1 .. Len(keys) |->
            << keys[i], [j \in 1 .. Len(table[keys[i]]) |->
                            json_dump_entry(table[keys[i]][j])] >>]

\* json.load(f): a dict of lists of dicts.
json_load(doc) ==
    [k \in { doc[i][1] : i \in 1 .. Len(doc) } |->
        LET array == member(doc, k)
        IN  [j \in 1 .. Len(array) |-> json_load_entry(array[j])]]

\* dict.get(difficulty, [])
get(table, difficulty) ==
    IF difficulty \in DOMAIN table THEN table[difficulty] ELSE << >>

\* ScoreManager._load_scores raises: the bytes of the file do not decode,
\* f.read() raises UnicodeDecodeError, a ValueError that is neither a
\* json.JSONDecodeError nor an IOError, so the except clause lets it pass.
load_raises(f) == f.exists /\ ~f.decodable

\* No table: what is there when _load_scores has raised.
NoTable == [d \in {} |-> << >>]

\* ScoreManager._load_scores: the table read from the file, or the three
\* empty lists when the file is missing or when open raises IOError or
\* json.load raises JSONDecodeError.
load_scores(f) ==
    CASE load_raises(f) -> NoTable
      [] f.exists /\ f.decodable /\ f.valid -> json_load(f.data)
      [] OTHER -> EmptyTable

\* Variant of _save_scores that writes only when there is no readable file
\* yet.
save_scores_once(f, table, outcome) ==
    CASE outcome = "ok" ->
            IF f.exists /\ f.valid THEN f
            ELSE [exists |-> TRUE, decodable |-> TRUE, valid |-> TRUE,
                  data |-> json_dump(table)]
      [] outcome = "open_failed" -> f
      [] outcome = "write_failed" ->
            [exists |-> TRUE, decodable |-> TRUE, valid |-> FALSE,
             data |-> << >>]

\* ScoreManager._save_scores: the file afterwards.  outcome is "ok", or
\* "open_failed" (IOError before anything is written: the file is as it
\* was), or "write_failed" (IOError after open(..., 'w') truncated it).
save_scores(f, table, outcome) ==
    CASE outcome = "ok" ->
            [exists |-> TRUE, decodable |-> TRUE, valid |-> TRUE,
             data |-> json_dump(table)]
      [] outcome = "open_failed" -> f
      [] outcome = "write_failed" ->
            [exists |-> TRUE, decodable |-> TRUE, valid |-> FALSE,
             data |-> << >>]

SaveOutcomes == {"ok", "open_failed", "write_failed"}

\* Variant of insert_desc that places an entry before the entries of equal score.
RECURSIVE insert_before_equal(_, _)
insert_before_equal(s, e) ==
    IF s = << >> THEN << e >>
    ELSE IF s[1].score > e.score
         THEN << s[1] >> \o insert_before_equal(Tail(s), e)
         ELSE << e >> \o s

\* One step of the stable sort: e goes behind every entry whose score is
\* not smaller than its own.
RECURSIVE insert_desc(_, _)
insert_desc(s, e) ==
    IF s = << >> THEN << e >>
    ELSE IF s[1].score >= e.score
         THEN << s[1] >> \o insert_desc(Tail(s), e)
         ELSE << e >> \o s

\* list.sort(key=lambda x: x['score'], reverse=True): a stable sort, the
\* entries of equal score keep their order.
RECURSIVE sort_desc(_)
sort_desc(s) ==
    IF s = << >> THEN << >>
    ELSE insert_desc(sort_desc(SubSeq(s, 1, Len(s) - 1)), s[Len(s)])

\* Variant of truncate that keeps eleven entries.
truncate_off_by_one(s) ==
    SubSeq(s, 1, IF Len(s) < 11 THEN Len(s) ELSE 11)

\* self.scores[difficulty][:10]
truncate(s) ==
    SubSeq(s, 1, IF Len(s) < 10 THEN Len(s) ELSE 10)

\* The loop at the end of add_score: the index of the first entry equal to
\* the new one (dict equality: score, player and date), else the length.
RECURSIVE rank_of(_, _, _)
rank_of(list, entry, i) ==
    IF i > Len(list) THEN Len(list)
    ELSE IF list[i] = entry THEN i
    ELSE rank_of(list, entry, i + 1)

\* Variant of add_score that appends the entry to every list of the table.
add_score_every_list(table, difficulty, new_score, player, date) ==
    LET entry == [score |-> new_score, player |-> player, date |-> date]
        appended == Append(get(table, difficulty), entry)
        kept == truncate(sort_desc(appended))
        tagged == sort_desc([i \in 1 .. Len(appended) |->
                              [score |-> appended[i].score, idx |-> i]])
        places == { i \in 1 .. Len(kept) : tagged[i].idx = Len(appended) }
    IN  [scores |-> [d \in DOMAIN table \cup {difficulty} |->
                        IF d = difficulty THEN kept
                        ELSE truncate(sort_desc(Append(table[d], entry)))],
         rank |-> rank_of(kept, entry, 1),
         at |-> IF places = {} THEN 0 ELSE CHOOSE i \in places : TRUE]

\* ScoreManager.add_score, without the save: the table afterwards and the
\* rank returned.  at is the place the appended entry itself went to (0
\* when the truncation dropped it), found by sorting the indices of the
\* appended list with the same sort.
add_score(table, difficulty, new_score, player, date) ==
    LET entry == [score |-> new_score, player |-> player, date |-> date]
        appended == Append(get(table, difficulty), entry)
        kept == truncate(sort_desc(appended))
        tagged == sort_desc([i \in 1 .. Len(appended) |->
                              [score |-> appended[i].score, idx |-> i]])
        places == { i \in 1 .. Len(kept) : tagged[i].idx = Len(appended) }
    IN  [scores |-> [d \in DOMAIN table \cup {difficulty} |->
                        IF d = difficulty THEN kept ELSE table[d]],
         rank |-> rank_of(kept, entry, 1),
         at |-> IF places = {} THEN 0 ELSE CHOOSE i \in places : TRUE]

\* Variant of is_high_score that also accepts a score equal to the lowest.
is_high_score_or_equal(table, difficulty, s) ==
    LET list == get(table, difficulty)
    IN  Len(list) < 10 \/ (list # << >> /\ s >= list[Len(list)].score)

\* Variant of is_high_score that compares a full list's highest score.
is_high_score_above_highest(table, difficulty, s) ==
    LET list == get(table, difficulty)
    IN  Len(list) < 10 \/ (list # << >> /\ s > list[1].score)

\* ScoreManager.is_high_score
is_high_score(table, difficulty, s) ==
    LET list == get(table, difficulty)
    IN  Len(list) < 10 \/ (list # << >> /\ s > list[Len(list)].score)

----------------------------------------------------------------------------
(* History records                                                         *)

NoStep == [moved |-> FALSE, dir |-> NoDir, prev_dir |-> NoDir,
           intent |-> NoDir, ate |-> FALSE, prev_ate |-> FALSE,
           delta |-> 0, tail_entry |-> FALSE, collided |-> FALSE]

NoAdd == [done |-> FALSE, difficulty |-> "MEDIUM", score |-> 0, date |-> 0,
          rank |-> 0, at |-> 0, before |-> << >>, qualified |-> FALSE,
          saved |-> FALSE]

----------------------------------------------------------------------------
(* SnakeGame                                                               *)

\* The keys explored: w, a, s stand with UP, LEFT, DOWN and behave alike.
Keys == {"UP", "DOWN", "LEFT", "RIGHT", "d", "SPACE", "RETURN", "ESCAPE",
         "l", "m", "1", "2", "3"}

Buttons == {"start", "leaderboard", "quit", "easy", "medium", "hard",
            "play_again", "change_difficulty", "back", "audio", "none"}

\* SnakeGame.__init__, after ScoreManager.__init__ has read the file.
Init ==
    /\ state = "menu"
    /\ current_difficulty = "MEDIUM"
    /\ leaderboard_difficulty = "MEDIUM"
    /\ has_snake = FALSE
    /\ positions = << >>
    /\ direction = NoDir
    /\ grow_pending = FALSE
    /\ food_position = << 0, 0 >>
    /\ score = 0
    /\ file = NoFile
    /\ scores = load_scores(file)
    /\ now = 0
    /\ running = TRUE
    /\ exited = FALSE
    /\ games = 0
    /\ ticks = 0
    /\ adds = 0
    /\ intent = NoDir
    /\ last_step = NoStep
    /\ last_add = NoAdd
    /\ respawn_call = NoCall

\* Variant of _start_new_game that does not reset the score.
start_new_game_keeps_score ==
    /\ games < MaxGames
    /\ games' = games + 1
    /\ UNCHANGED << ticks, score, respawn_call >>
    /\ has_snake' = TRUE
    /\ positions' = << StartCell >>
    /\ direction' = RIGHT
    /\ grow_pending' = FALSE
    /\ food_position' \in generate_position
    /\ state' = "playing"
    /\ intent' = NoDir
    /\ last_step' = NoStep

\* SnakeGame._start_new_game: Snake(), Food(), score 0, PLAYING.
start_new_game ==
    /\ games < MaxGames
    /\ games' = games + 1
    /\ UNCHANGED << ticks, respawn_call >>
    /\ has_snake' = TRUE
    /\ positions' = << StartCell >>
    /\ direction' = RIGHT
    /\ grow_pending' = FALSE
    /\ food_position' \in generate_position
    /\ score' = 0
    /\ state' = "playing"
    /\ intent' = NoDir
    /\ last_step' = NoStep

unchangedSession ==
    UNCHANGED << has_snake, positions, direction, grow_pending, food_position,
                 score, games, ticks, intent, last_step, respawn_call >>

\* The direction a key of the PLAYING branch asks for, NoDir for other keys.
KeyDirection(key) ==
    CASE key \in {"UP", "w"} -> UP
      [] key \in {"DOWN", "s"} -> DOWN
      [] key \in {"LEFT", "a"} -> LEFT
      [] key \in {"RIGHT", "d"} -> RIGHT
      [] OTHER -> NoDir

\* The difficulty the keys 1, 2, 3 and the difficulty buttons stand for.
PickOf(x) ==
    CASE x \in {"1", "easy"} -> "EASY"
      [] x \in {"2", "medium"} -> "MEDIUM"
      [] x \in {"3", "hard"} -> "HARD"
      [] OTHER -> "none"

\* Variant of the MENU branch in which the keys 1, 2, 3 open the difficulty
\* screen as well.
keyboard_menu_pick_opens(key) ==
    /\ state' = (CASE key \in {"SPACE", "RETURN", "1", "2", "3"} ->
                        "difficulty_select"
                   [] key = "l" -> "leaderboard"
                   [] OTHER -> state)
    /\ running' = (key # "ESCAPE")
    /\ UNCHANGED << current_difficulty, leaderboard_difficulty >>
    /\ unchangedSession

\* _handle_keyboard_input, state MENU.
keyboard_menu(key) ==
    /\ state' = (CASE key \in {"SPACE", "RETURN"} -> "difficulty_select"
                   [] key = "l" -> "leaderboard"
                   [] OTHER -> state)
    /\ running' = (key # "ESCAPE")
    /\ UNCHANGED << current_difficulty, leaderboard_difficulty >>
    /\ unchangedSession

\* _handle_keyboard_input, state DIFFICULTY_SELECT.
keyboard_difficulty_select(key) ==
    IF key \in {"SPACE", "RETURN"}
    THEN /\ start_new_game
         /\ UNCHANGED << current_difficulty, leaderboard_difficulty, running >>
    ELSE /\ current_difficulty' =
              (IF PickOf(key) # "none" THEN PickOf(key)
               ELSE current_difficulty)
         /\ state' = (IF key = "ESCAPE" THEN "menu" ELSE state)
         /\ UNCHANGED << leaderboard_difficulty, running >>
         /\ unchangedSession

\* Variant of the PLAYING branch whose ESCAPE discards the snake, the food
\* and the score.
keyboard_playing_escape_clears(key) ==
    /\ direction' =
         (CASE key = "ESCAPE" -> NoDir
            [] KeyDirection(key) # NoDir ->
                 change_direction(direction, KeyDirection(key))
            [] OTHER -> direction)
    /\ intent' =
         (CASE KeyDirection(key) # NoDir -> KeyDirection(key)
            [] key = "ESCAPE" -> NoDir
            [] OTHER -> intent)
    /\ state' = (IF key = "ESCAPE" THEN "menu" ELSE state)
    /\ has_snake' = (key # "ESCAPE")
    /\ positions' = (IF key = "ESCAPE" THEN << >> ELSE positions)
    /\ score' = (IF key = "ESCAPE" THEN 0 ELSE score)
    /\ UNCHANGED << current_difficulty, leaderboard_difficulty, running,
                    grow_pending, food_position, games, ticks, last_step,
                    respawn_call >>

\* Variant of the PLAYING branch in which the keys 1, 2, 3 pick a
\* difficulty.
keyboard_playing_digits_pick(key) ==
    /\ direction' =
         (IF KeyDirection(key) # NoDir
          THEN change_direction(direction, KeyDirection(key))
          ELSE direction)
    /\ intent' =
         (CASE KeyDirection(key) # NoDir -> KeyDirection(key)
            [] key = "ESCAPE" -> NoDir
            [] OTHER -> intent)
    /\ state' = (IF key = "ESCAPE" THEN "menu" ELSE state)
    /\ current_difficulty' =
         (IF PickOf(key) # "none" THEN PickOf(key) ELSE current_difficulty)
    /\ UNCHANGED << leaderboard_difficulty, running,
                    has_snake, positions, grow_pending, food_position,
                    score, games, ticks, last_step,
                    respawn_call >>

\* _handle_keyboard_input, state PLAYING.
keyboard_playing(key) ==
    /\ direction' =
         (IF KeyDirection(key) # NoDir
          THEN change_direction(direction, KeyDirection(key))
          ELSE direction)
    /\ intent' =
         (CASE KeyDirection(key) # NoDir -> KeyDirection(key)
            [] key = "ESCAPE" -> NoDir
            [] OTHER -> intent)
    /\ state' = (IF key = "ESCAPE" THEN "menu" ELSE state)
    /\ UNCHANGED << current_difficulty, leaderboard_difficulty, running,
                    has_snake, positions, grow_pending, food_position,
                    score, games, ticks, last_step,
                    respawn_call >>

\* Variant of the GAME_OVER branch without the key l.
keyboard_game_over_without_l(key) ==
    IF key \in {"SPACE", "RETURN"}
    THEN /\ start_new_game
         /\ UNCHANGED << current_difficulty, leaderboard_difficulty, running >>
    ELSE /\ state' = (CASE key = "d" -> "difficulty_select"
                        [] key = "ESCAPE" -> "menu"
                        [] OTHER -> state)
         /\ UNCHANGED << current_difficulty, leaderboard_difficulty, running >>
         /\ unchangedSession

\* Variant of the GAME_OVER branch in which the directional keys steer the
\* snake of the finished session.
keyboard_game_over_steers(key) ==
    IF key \in {"SPACE", "RETURN"}
    THEN /\ start_new_game
         /\ UNCHANGED << current_difficulty, leaderboard_difficulty, running >>
    ELSE /\ state' = (CASE key = "d" -> "difficulty_select"
                        [] key = "l" -> "leaderboard"
                        [] key = "ESCAPE" -> "menu"
                        [] OTHER -> state)
         /\ direction' =
              (IF KeyDirection(key) # NoDir
               THEN change_direction(direction, KeyDirection(key))
               ELSE direction)
         /\ UNCHANGED << current_difficulty, leaderboard_difficulty, running,
                         has_snake, positions, grow_pending, food_position,
                         score, games, ticks, intent, last_step,
                         respawn_call >>

\* _handle_keyboard_input, state GAME_OVER.
keyboard_game_over(key) ==
    IF key \in {"SPACE", "RETURN"}
    THEN /\ start_new_game
         /\ UNCHANGED << current_difficulty, leaderboard_difficulty, running >>
    ELSE /\ state' = (CASE key = "d" -> "difficulty_select"
                        [] key = "l" -> "leaderboard"
                        [] key = "ESCAPE" -> "menu"
                        [] OTHER -> state)
         /\ UNCHANGED << current_difficulty, leaderboard_difficulty, running >>
         /\ unchangedSession

\* Variant of the LEADERBOARD branch whose keys 1, 2, 3 set the difficulty
\* of the game as well.
keyboard_leaderboard_sets_game(key) ==
    /\ state' = (IF key = "ESCAPE" THEN "menu" ELSE state)
    /\ leaderboard_difficulty' =
         (IF key \in {"1", "2", "3"} THEN PickOf(key)
          ELSE leaderboard_difficulty)
    /\ current_difficulty' =
         (IF key \in {"1", "2", "3"} THEN PickOf(key)
          ELSE current_difficulty)
    /\ UNCHANGED running
    /\ unchangedSession

\* _handle_keyboard_input, state LEADERBOARD.
keyboard_leaderboard(key) ==
    /\ state' = (IF key = "ESCAPE" THEN "menu" ELSE state)
    /\ leaderboard_difficulty' =
         (IF key \in {"1", "2", "3"} THEN PickOf(key)
          ELSE leaderboard_difficulty)
    /\ UNCHANGED << current_difficulty, running >>
    /\ unchangedSession

\* SnakeGame._handle_keyboard_input, one KEYDOWN event of _handle_events.
handle_keyboard_input(key) ==
    /\ UNCHANGED << scores, file, now, exited, adds, last_add >>
    /\ CASE state = "menu" -> keyboard_menu(key)
         [] state = "difficulty_select" -> keyboard_difficulty_select(key)
         [] state = "playing" -> keyboard_playing(key)
         [] state = "game_over" -> keyboard_game_over(key)
         [] state = "leaderboard" -> keyboard_leaderboard(key)

\* _handle_button_clicks, state MENU.
buttons_menu(button) ==
    /\ state' = (CASE button = "start" -> "difficulty_select"
                   [] button = "leaderboard" -> "leaderboard"
                   [] OTHER -> state)
    /\ running' = (button # "quit")
    /\ UNCHANGED current_difficulty
    /\ unchangedSession

\* _handle_button_clicks, state DIFFICULTY_SELECT.
buttons_difficulty_select(button) ==
    IF PickOf(button) # "none"
    THEN /\ current_difficulty' = PickOf(button)
         /\ start_new_game
         /\ UNCHANGED running
    ELSE /\ state' = (IF button = "back" THEN "menu" ELSE state)
         /\ UNCHANGED << current_difficulty, running >>
         /\ unchangedSession

\* _handle_button_clicks, state GAME_OVER.
buttons_game_over(button) ==
    IF button = "play_again"
    THEN /\ start_new_game
         /\ UNCHANGED << current_difficulty, running >>
    ELSE /\ state' = (CASE button = "change_difficulty" -> "difficulty_select"
                        [] button = "back" -> "menu"
                        [] OTHER -> state)
         /\ UNCHANGED << current_difficulty, running >>
         /\ unchangedSession

\* _handle_button_clicks, state LEADERBOARD.
buttons_leaderboard(button) ==
    /\ state' = (IF button = "back" THEN "menu" ELSE state)
    /\ UNCHANGED << current_difficulty, running >>
    /\ unchangedSession

\* SnakeGame._handle_button_clicks, one MOUSEBUTTONDOWN event (button 1)
\* of _handle_events; button is the button whose rectangle holds the
\* click, "none" when no button does.  No button acts while PLAYING.
handle_button_clicks(button) ==
    /\ UNCHANGED << scores, file, now, exited, adds, last_add,
                    leaderboard_difficulty >>
    /\ CASE state = "menu" -> buttons_menu(button)
         [] state = "difficulty_select" -> buttons_difficulty_select(button)
         [] state = "playing" ->
              /\ UNCHANGED << state, current_difficulty, running >>
              /\ unchangedSession
         [] state = "game_over" -> buttons_game_over(button)
         [] state = "leaderboard" -> buttons_leaderboard(button)

\* Variant of step that tests the collision before the tail is dropped.
step_check_before_pop(pos, dir, grow) ==
    LET m == move(pos, dir, grow)
        new_head == m.positions[1]
    IN  [positions |-> m.positions, grow_pending |-> m.grow_pending,
         collided |-> check_collision(<< new_head >> \o pos)]

\* _update_game_logic, PLAYING: snake.move() and snake.check_collision().
step(pos, dir, grow) ==
    LET m == move(pos, dir, grow)
    IN  [positions |-> m.positions, grow_pending |-> m.grow_pending,
         collided |-> check_collision(m.positions)]

\* Variant of final_score that multiplies by the whole part of the multiplier.
final_score_whole_multiplier(raw, difficulty) ==
    raw * (get_config(difficulty).multiplier10 \div 10)

\* int(self.score * config.multiplier)
final_score(raw, difficulty) ==
    (raw * get_config(difficulty).multiplier10) \div 10

\* Variant of _handle_game_over that records the score and lets the session
\* go on.
handle_game_over_keeps_playing ==
    LET final == final_score(score, current_difficulty)
        added == add_score(scores, current_difficulty, final, "Player", now)
    IN  /\ state' = "playing"
        /\ scores' = added.scores
        /\ adds' = adds + 1
        /\ \E outcome \in SaveOutcomes :
              /\ file' = save_scores(file, added.scores, outcome)
              /\ last_add' = [done |-> TRUE,
                              difficulty |-> current_difficulty,
                              score |-> final, date |-> now,
                              rank |-> added.rank,
                              at |-> added.at,
                              before |-> get(scores, current_difficulty),
                              qualified |-> TRUE,
                              saved |-> (outcome = "ok")]

\* Variant of _handle_game_over whose add_score keeps the new entry only
\* when the save succeeded.
handle_game_over_entry_lost_on_failure ==
    LET final == final_score(score, current_difficulty)
        high == is_high_score(scores, current_difficulty, final)
        added == add_score(scores, current_difficulty, final, "Player", now)
    IN  /\ state' = "game_over"
        /\ IF high
           THEN /\ adds' = adds + 1
                /\ \E outcome \in SaveOutcomes :
                      /\ file' = save_scores(file, added.scores, outcome)
                      /\ scores' = (IF outcome = "ok" THEN added.scores
                                    ELSE scores)
                      /\ last_add' =
                            [done |-> TRUE,
                             difficulty |-> current_difficulty,
                             score |-> final, date |-> now,
                             rank |-> added.rank,
                             at |-> added.at,
                             before |-> get(scores, current_difficulty),
                             qualified |-> high,
                             saved |-> (outcome = "ok")]
           ELSE UNCHANGED << scores, file, adds, last_add >>

\* SnakeGame._handle_game_over: is_high_score, then add_score with its save.
handle_game_over ==
    LET final == final_score(score, current_difficulty)
        high == is_high_score(scores, current_difficulty, final)
        added == add_score(scores, current_difficulty, final, "Player", now)
    IN  /\ state' = "game_over"
        /\ IF high
           THEN /\ scores' = added.scores
                /\ adds' = adds + 1
                /\ \E outcome \in SaveOutcomes :
                      /\ file' = save_scores(file, added.scores, outcome)
                      /\ last_add' =
                            [done |-> TRUE,
                             difficulty |-> current_difficulty,
                             score |-> final, date |-> now,
                             rank |-> added.rank,
                             at |-> added.at,
                             before |-> get(scores, current_difficulty),
                             qualified |-> high,
                             saved |-> (outcome = "ok")]
           ELSE UNCHANGED << scores, file, adds, last_add >>

\* Variant of _handle_food_eaten that leaves the score as it was.
handle_food_eaten_no_score(new_positions) ==
    /\ grow_pending' = TRUE
    /\ score' = score
    /\ food_position' \in respawn(food_position, new_positions, 0)

\* Variant of _handle_food_eaten without eat_food: no growth is pending.
handle_food_eaten_no_growth(new_positions) ==
    /\ grow_pending' = FALSE
    /\ score' = score + FOOD_SCORE
    /\ food_position' \in respawn(food_position, new_positions, 0)

\* SnakeGame._handle_food_eaten: eat_food, the score, Food.respawn.
handle_food_eaten(new_positions) ==
    /\ grow_pending' = TRUE
    /\ score' = score + FOOD_SCORE
    /\ food_position' \in respawn(food_position, new_positions, 0)

\* The history of one call of Snake.move.
StepRecord(s) ==
    [moved |-> TRUE, dir |-> direction, prev_dir |-> last_step.dir,
     intent |-> intent, ate |-> (s.positions[1] = food_position),
     prev_ate |-> last_step.ate,
     delta |-> Len(s.positions) - Len(positions),
     tail_entry |-> (/\ ~grow_pending
                     /\ Len(positions) >= 2
                     /\ s.positions[1] = positions[Len(positions)]
                     /\ s.positions[1] \in Cells
                     /\ \A i \in 1 .. Len(positions) - 1 :
                           positions[i] # s.positions[1]),
     collided |-> s.collided]

\* SnakeGame._update_game_logic in state PLAYING.
update_game_logic ==
    LET s == step(positions, direction, grow_pending)
    IN  /\ grow_pending => Len(positions) < MaxLen
        /\ positions' = s.positions
        /\ last_step' = StepRecord(s)
        /\ intent' = NoDir
        /\ UNCHANGED << direction, has_snake, games, current_difficulty,
                        respawn_call >>
        /\ IF s.collided
           THEN /\ handle_game_over
                /\ grow_pending' = s.grow_pending
                /\ UNCHANGED << score, food_position >>
           ELSE /\ IF s.positions[1] = food_position
                   THEN handle_food_eaten(s.positions)
                   ELSE /\ grow_pending' = s.grow_pending
                        /\ UNCHANGED << score, food_position >>
                /\ UNCHANGED << state, scores, file, adds, last_add >>

\* SnakeGame._draw_game_over: whether "NEW HIGH SCORE!" is drawn, which
\* is_high_score decides anew in every frame from the table as it is.
new_high_score ==
    is_high_score(scores, current_difficulty,
                  final_score(score, current_difficulty))

\* SnakeGame._draw_leaderboard: a tab under the pressed mouse button
\* becomes the leaderboard difficulty; tab is "none" when there is none.
draw(tab) ==
    leaderboard_difficulty' =
        (IF state' = "leaderboard" /\ tab # "none" THEN tab
         ELSE leaderboard_difficulty)

----------------------------------------------------------------------------
(* The loop of SnakeGame.run.  One iteration handles the pending events    *)
(* one after the other (_handle_events stops at the first that returns     *)
(* False), then runs _update_game_logic and draw, then tests `running`.    *)

\* A KEYDOWN event.
KeyDown ==
    /\ running /\ ~exited
    /\ \E key \in Keys : handle_keyboard_input(key)

\* A MOUSEBUTTONDOWN event.
MouseDown ==
    /\ running /\ ~exited
    /\ \E button \in Buttons : handle_button_clicks(button)

\* A pygame.QUIT event.
QuitEvent ==
    /\ running /\ ~exited
    /\ running' = FALSE
    /\ UNCHANGED << state, current_difficulty, leaderboard_difficulty,
                    scores, file, now, exited, adds, last_add >>
    /\ unchangedSession

\* The rest of an iteration while PLAYING.
LoopBodyPlaying ==
    /\ ~exited
    /\ state = "playing"
    /\ update_game_logic
    /\ draw("none")
    /\ exited' = ~running
    /\ UNCHANGED << now, running >>

\* Variant of the iteration outside PLAYING whose _update_game_logic runs
\* _handle_game_over again while the state is GAME_OVER.
LoopBodyIdle_scores_again ==
    /\ ~exited
    /\ state # "playing"
    /\ IF state = "game_over"
       THEN handle_game_over
       ELSE UNCHANGED << state, scores, file, adds, last_add >>
    /\ UNCHANGED << current_difficulty, now, running >>
    /\ unchangedSession
    /\ \E tab \in Difficulties \cup {"none"} : draw(tab)
    /\ exited' = ~running

\* The rest of an iteration in the other states.
LoopBodyIdle ==
    /\ ~exited
    /\ state # "playing"
    /\ UNCHANGED << state, current_difficulty, scores, file, now, running,
                    adds, last_add >>
    /\ unchangedSession
    /\ \E tab \in Difficulties \cup {"none"} : draw(tab)
    /\ exited' = ~running

\* A step of a session, counted against MaxTicks.
Tick ==
    /\ ticks < MaxTicks
    /\ ticks' = ticks + 1
    /\ LoopBodyPlaying

Next ==
    \/ KeyDown
    \/ MouseDown
    \/ QuitEvent
    \/ Tick
    \/ LoopBodyIdle

\* The whole state machine, from process start, with short sessions.
Spec == Init /\ [][Next]_vars

----------------------------------------------------------------------------
(* One session, from its creation by _start_new_game (SPACE in the         *)
(* difficulty screen of a fresh process) to its end.                       *)

InitSession ==
    /\ state = "playing"
    /\ current_difficulty = "MEDIUM"
    /\ leaderboard_difficulty = "MEDIUM"
    /\ has_snake = TRUE
    /\ positions = << StartCell >>
    /\ direction = RIGHT
    /\ grow_pending = FALSE
    /\ food_position \in generate_position
    /\ score = 0
    /\ file = NoFile
    /\ scores = load_scores(file)
    /\ now = 0
    /\ running = TRUE
    /\ exited = FALSE
    /\ games = 1
    /\ ticks = 0
    /\ adds = 0
    /\ intent = NoDir
    /\ last_step = NoStep
    /\ last_add = NoAdd
    /\ respawn_call = NoCall

\* A KEYDOWN event while PLAYING.
SessionKey ==
    /\ state = "playing"
    /\ KeyDown

\* A step of the session.
SessionStep ==
    /\ LoopBodyPlaying
    /\ UNCHANGED ticks

NextSession ==
    \/ SessionKey
    \/ SessionStep

SpecSession == InitSession /\ [][NextSession]_vars

----------------------------------------------------------------------------
(* The leaderboard on its own: a process starts on a file an earlier run   *)
(* left behind, and add_score and is_high_score are called with scores,    *)
(* difficulties and dates from small sets.                                 *)

Entry(s, date) == [score |-> s, player |-> "Player", date |-> date]

BoardScores == { 10 * k : k \in 1 .. MaxScoreStep }

\* Nine entries as add_score leaves them: sorted, the lowest score 20.
NineEntries ==
    << Entry(30, 0), Entry(30, 0), Entry(20, 0), Entry(20, 0), Entry(20, 0),
       Entry(20, 0), Entry(20, 0), Entry(20, 0), Entry(20, 0) >>

\* A table an earlier run saved: no entry for EASY, nine for MEDIUM, ten
\* for HARD.
StoredTable ==
    [d \in Difficulties |->
        CASE d = "EASY" -> << >>
          [] d = "MEDIUM" -> NineEntries
          [] d = "HARD" -> Append(NineEntries, Entry(20, 0))]

\* The files a process can start on: none, an unreadable one, or a table
\* written by _save_scores.
BoardFiles ==
    { NoFile,
      [exists |-> TRUE, decodable |-> TRUE, valid |-> FALSE, data |-> << >>],
      [exists |-> TRUE, decodable |-> TRUE, valid |-> TRUE,
       data |-> json_dump(StoredTable)] }

InitBoard ==
    /\ state = "menu"
    /\ current_difficulty = "MEDIUM"
    /\ leaderboard_difficulty = "MEDIUM"
    /\ has_snake = FALSE
    /\ positions = << >>
    /\ direction = NoDir
    /\ grow_pending = FALSE
    /\ food_position = << 0, 0 >>
    /\ score = 0
    /\ file \in BoardFiles
    /\ scores = load_scores(file)
    /\ now = 0
    /\ running = TRUE
    /\ exited = FALSE
    /\ games = 0
    /\ ticks = 0
    /\ adds = 0
    /\ intent = NoDir
    /\ last_step = NoStep
    /\ last_add = NoAdd
    /\ respawn_call = NoCall

unchangedGame ==
    /\ UNCHANGED << state, current_difficulty, leaderboard_difficulty,
                    running, exited >>
    /\ unchangedSession

\* The difficulty keys add_score and is_high_score are called with.
BoardKeys == Difficulties \cup {UnknownKey}

\* A call of ScoreManager.add_score, with its _save_scores.
BoardAdd ==
    /\ adds < MaxAdds
    /\ \E d \in BoardKeys, s \in BoardScores, outcome \in SaveOutcomes :
          LET added == add_score(scores, d, s, "Player", now)
          IN  /\ scores' = added.scores
              /\ file' = save_scores(file, added.scores, outcome)
              /\ last_add' = [done |-> TRUE, difficulty |-> d, score |-> s,
                              date |-> now, rank |-> added.rank,
                              at |-> added.at,
                              before |-> get(scores, d),
                              qualified |-> is_high_score(scores, d, s),
                              saved |-> (outcome = "ok")]
    /\ adds' = adds + 1
    /\ UNCHANGED now
    /\ unchangedGame

\* The process ends and a new one starts: ScoreManager.__init__ reads the file.
BoardRestart ==
    /\ scores' = load_scores(file)
    /\ last_add' = NoAdd
    /\ UNCHANGED << file, now, adds >>
    /\ unchangedGame

\* A minute of wall-clock time passes.
MinutePasses ==
    /\ now < MaxMinute
    /\ now' = now + 1
    /\ UNCHANGED << scores, file, adds, last_add >>
    /\ unchangedGame

NextBoard ==
    \/ BoardAdd
    \/ BoardRestart
    \/ MinutePasses

SpecBoard == InitBoard /\ [][NextBoard]_vars

----------------------------------------------------------------------------
(* The screens: the whole state machine from the start of a process, on    *)
(* any of the files.  The sessions are short: nobody steers, so a session  *)
(* runs from the centre straight to the right wall unless it is left       *)
(* before, and the random generator gives one of a few cells.              *)

\* The cells random.randint gives here: a corner, the start cell, and the
\* cell right of it, which a session reaches with its first step.
ScreenFoods ==
    { << 0, 0 >>, StartCell, << StartCell[1] + 1, StartCell[2] >> }

\* Food() and Food.respawn sample from ScreenFoods.
ScreenSamples == food_position' \in ScreenFoods \cup {food_position}

\* A KEYDOWN event; no directional key while PLAYING.
ScreensKey ==
    /\ running /\ ~exited
    /\ \E key \in Keys :
          /\ state = "playing" => KeyDirection(key) = NoDir
          /\ handle_keyboard_input(key)
    /\ ScreenSamples

\* A MOUSEBUTTONDOWN event.
ScreensClick ==
    /\ MouseDown
    /\ ScreenSamples

\* A step of a session.
ScreensStep ==
    /\ LoopBodyPlaying
    /\ UNCHANGED ticks
    /\ ScreenSamples

NextScreens ==
    \/ ScreensKey
    \/ ScreensClick
    \/ QuitEvent
    \/ ScreensStep
    \/ LoopBodyIdle

SpecScreens == InitBoard /\ [][NextScreens]_vars

----------------------------------------------------------------------------
(* The process from main(): SnakeGame() builds the ScoreManager, which     *)
(* loads the file, before the state is set to MENU; an exception that      *)
(* leaves _load_scores is caught in main(), which calls sys.exit(1).       *)

\* The files a process can start on, with one whose bytes do not decode.
ProcessFiles ==
    BoardFiles \cup
        { [exists |-> TRUE, decodable |-> FALSE, valid |-> FALSE,
           data |-> << >>] }

\* main(): state "none" stands for the process that ended in SnakeGame().
InitProcess ==
    /\ file \in ProcessFiles
    /\ state = (IF load_raises(file) THEN "none" ELSE "menu")
    /\ exited = load_raises(file)
    /\ scores = load_scores(file)
    /\ current_difficulty = "MEDIUM"
    /\ leaderboard_difficulty = "MEDIUM"
    /\ has_snake = FALSE
    /\ positions = << >>
    /\ direction = NoDir
    /\ grow_pending = FALSE
    /\ food_position = << 0, 0 >>
    /\ score = 0
    /\ now = 0
    /\ running = TRUE
    /\ games = 0
    /\ ticks = 0
    /\ adds = 0
    /\ intent = NoDir
    /\ last_step = NoStep
    /\ last_add = NoAdd
    /\ respawn_call = NoCall

SpecProcess == InitProcess /\ [][NextScreens]_vars

----------------------------------------------------------------------------
(* One call of Food.respawn, iteration by iteration.  _handle_food_eaten   *)
(* calls it when the head has reached the food, with the body as it is     *)
(* after the move.                                                         *)

\* A path through the whole grid, row by row, turning at the walls.
WholeGrid ==
    [i \in 1 .. GRID_WIDTH * GRID_HEIGHT |->
        LET y == (i - 1) \div GRID_WIDTH
            x == (i - 1) % GRID_WIDTH
        IN  << IF y % 2 = 0 THEN x ELSE GRID_WIDTH - 1 - x, y >>]

\* The bodies a call is made with: the head part of that path, of every
\* length up to the whole grid.
RespawnBodies ==
    { SubSeq(WholeGrid, 1, n) : n \in 1 .. GRID_WIDTH * GRID_HEIGHT }

\* The call begins: attempts = 0, the food under the head.
InitRespawn ==
    /\ state = "playing"
    /\ current_difficulty = "MEDIUM"
    /\ leaderboard_difficulty = "MEDIUM"
    /\ has_snake = TRUE
    /\ positions \in RespawnBodies
    /\ direction = RIGHT
    /\ grow_pending = TRUE
    /\ food_position = positions[1]
    /\ score = FOOD_SCORE
    /\ file = NoFile
    /\ scores = load_scores(file)
    /\ now = 0
    /\ running = TRUE
    /\ exited = FALSE
    /\ games = 1
    /\ ticks = 0
    /\ adds = 0
    /\ intent = NoDir
    /\ last_step = NoStep
    /\ last_add = NoAdd
    /\ respawn_call = [active |-> TRUE, attempts |-> 0,
                       new_position |-> NoCell, before |-> food_position]

unchangedByRespawn ==
    UNCHANGED << state, current_difficulty, leaderboard_difficulty, has_snake,
                 positions, direction, grow_pending, score, scores, file, now,
                 running, exited, games, ticks, adds, intent, last_step,
                 last_add >>

\* Variant of the loop body that does not count an attempt.
RespawnAttempt_not_counted ==
    /\ respawn_call.active
    /\ respawn_call.attempts < MAX_ATTEMPTS
    /\ \E new_position \in generate_position :
          IF ~InSeq(new_position, positions)
          THEN /\ food_position' = new_position
               /\ respawn_call' =
                     [respawn_call EXCEPT !.new_position = new_position,
                                          !.active = FALSE]
          ELSE /\ UNCHANGED food_position
               /\ respawn_call' =
                     [respawn_call EXCEPT !.new_position = new_position]
    /\ unchangedByRespawn

\* Variant of the loop body that takes every sampled cell as the position.
RespawnAttempt_takes_sample ==
    /\ respawn_call.active
    /\ respawn_call.attempts < MAX_ATTEMPTS
    /\ \E new_position \in generate_position :
          /\ food_position' = new_position
          /\ IF ~InSeq(new_position, positions)
             THEN respawn_call' =
                     [respawn_call EXCEPT !.new_position = new_position,
                                          !.active = FALSE]
             ELSE respawn_call' =
                     [respawn_call EXCEPT !.new_position = new_position,
                                          !.attempts = @ + 1]
    /\ unchangedByRespawn

\* One iteration of `while attempts < 100`: a sample, then either the
\* assignment and the break, or attempts += 1.
RespawnAttempt ==
    /\ respawn_call.active
    /\ respawn_call.attempts < MAX_ATTEMPTS
    /\ \E new_position \in generate_position :
          IF ~InSeq(new_position, positions)
          THEN /\ food_position' = new_position
               /\ respawn_call' =
                     [respawn_call EXCEPT !.new_position = new_position,
                                          !.active = FALSE]
          ELSE /\ UNCHANGED food_position
               /\ respawn_call' =
                     [respawn_call EXCEPT !.new_position = new_position,
                                          !.attempts = @ + 1]
    /\ unchangedByRespawn

\* The loop condition is false: the call returns.
RespawnExit ==
    /\ respawn_call.active
    /\ respawn_call.attempts >= MAX_ATTEMPTS
    /\ respawn_call' = [respawn_call EXCEPT !.active = FALSE]
    /\ UNCHANGED food_position
    /\ unchangedByRespawn

NextRespawn ==
    \/ RespawnAttempt
    \/ RespawnExit

SpecRespawn == InitRespawn /\ [][NextRespawn]_vars

----------------------------------------------------------------------------
(* A session that is steered for a while and then left alone: once the     *)
(* first counted step is taken no key arrives any more, and `ticks` counts *)
(* the steps since.  The random generator gives the cells of ScreenFoods.  *)

InitStraight ==
    /\ InitSession
    /\ food_position \in ScreenFoods

\* A KEYDOWN event while the session is steered.
StraightKey ==
    /\ ticks = 0
    /\ SessionKey
    /\ ScreenSamples

\* A step while the session is steered.
SteeredStep ==
    /\ ticks = 0
    /\ LoopBodyPlaying
    /\ UNCHANGED ticks
    /\ ScreenSamples

\* A step after the last key.
StraightStep ==
    /\ LoopBodyPlaying
    /\ ticks' = ticks + 1
    /\ ScreenSamples

NextStraight ==
    \/ StraightKey
    \/ SteeredStep
    \/ StraightStep

SpecStraight == InitStraight /\ [][NextStraight]_vars

----------------------------------------------------------------------------
(* Properties of the simulation: C1 is checked under Spec, the others      *)
(* under SpecSession.                                                      *)



\* C1: whenever a session exists, the food cell is not one of the cells of
\* the snake body.
C1_FoodNeverInBody ==
    (has_snake /\ state \in {"playing", "game_over"})
        => ~InSeq(food_position, positions)

\* C2: the direction of a step is never the negation of the direction of
\* the step before it, whatever keys came in between.
C2_NoReversalBetweenSteps ==
    (last_step.moved /\ last_step.prev_dir # NoDir)
        => last_step.dir # Neg(last_step.prev_dir)

\* C3: a step moves in the last direction asked for since the step before,
\* unless that is the negation of the direction d of the step before, and
\* then in d; with no key in between it moves in d.
C3_LastIntentWins ==
    (last_step.moved /\ last_step.prev_dir # NoDir)
        => last_step.dir =
             (IF last_step.intent = NoDir
                 \/ last_step.intent = Neg(last_step.prev_dir)
              THEN last_step.prev_dir
              ELSE last_step.intent)

\* C4: a step makes the body one cell longer when the step before it, in
\* the same session, brought the head onto the food cell, and leaves its
\* length as it was otherwise; the length never goes down.
C4_GrowthOneStepAfterFood ==
    last_step.moved
        => last_step.delta = (IF last_step.prev_ate THEN 1 ELSE 0)

\* A step after a step that ate has been taken, and the body is longer.
C4_Witness ==
    /\ last_step.moved
    /\ last_step.prev_ate
    /\ last_step.delta = 1
    /\ Len(positions) >= 3

\* C5: while the state is PLAYING every cell of the body lies in the grid.
C5_BodyInsideGrid ==
    state = "playing"
        => \A i \in 1 .. Len(positions) :
              /\ 0 <= positions[i][1] /\ positions[i][1] < GRID_WIDTH
              /\ 0 <= positions[i][2] /\ positions[i][2] < GRID_HEIGHT

\* The session goes on after a step that took the head to the right border.
C5_Witness ==
    /\ state = "playing"
    /\ last_step.moved
    /\ Len(positions) >= 2
    /\ positions[1][1] = GRID_WIDTH - 1

\* C6: while the state is PLAYING the body has at least one cell and no
\* cell twice.
C6_BodyCellsDistinct ==
    state = "playing"
        => /\ Len(positions) >= 1
           /\ \A i, j \in 1 .. Len(positions) :
                 i # j => positions[i] # positions[j]

\* The session goes on after a step of a body of three cells or more.
C6_Witness ==
    /\ state = "playing"
    /\ last_step.moved
    /\ Len(positions) >= 3

\* C7: a step without pending growth whose new head is the cell the tail
\* had before the step, and no other cell of the body, is no collision.
C7_TailCellIsFree ==
    last_step.tail_entry => ~last_step.collided

\* A body of four cells has turned into the cell its tail just left.
C7_Witness ==
    /\ last_step.tail_entry
    /\ state = "playing"
    /\ Len(positions) >= 4

----------------------------------------------------------------------------
(* Properties of the leaderboard, checked under SpecBoard.                 *)

\* The list add_score is to leave: the entry e put at place at of the list
\* before, the first ten kept; the list before when at is 0.
Placed(before, e, at) ==
    IF at = 0 THEN before
    ELSE LET all == SubSeq(before, 1, at - 1) \o << e >>
                    \o SubSeq(before, at, Len(before))
         IN  SubSeq(all, 1, IF Len(all) < 10 THEN Len(all) ELSE 10)

\* The scores of the EASY list after add_score of 50, 30, 80 and 10 on the
\* empty table.
ScenarioE ==
    LET t1 == add_score(EmptyTable, "EASY", 50, "Player", 0).scores
        t2 == add_score(t1, "EASY", 30, "Player", 0).scores
        t3 == add_score(t2, "EASY", 80, "Player", 0).scores
        t4 == add_score(t3, "EASY", 10, "Player", 0).scores
    IN  [i \in 1 .. Len(t4["EASY"]) |-> t4["EASY"][i].score]

\* C8: every list holds at most 10 entries in non-increasing order of score,
\* and add_score puts the new entry behind the entries of the same or a
\* higher score and before those of a lower score, the other entries
\* staying in their order; 50, 30, 80, 10 on an empty list give 80, 50,
\* 30, 10.
C8_ListsSortedStableCapped ==
    /\ \A d \in DOMAIN scores :
          /\ Len(scores[d]) <= 10
          /\ \A i, j \in 1 .. Len(scores[d]) :
                i < j => scores[d][i].score >= scores[d][j].score
    /\ last_add.done =>
          LET before == last_add.before
              place == Cardinality({ i \in 1 .. Len(before) :
                                      before[i].score >= last_add.score }) + 1
          IN  /\ \A i \in 1 .. Len(before) :
                    (i < place) = (before[i].score >= last_add.score)
              /\ last_add.at = (IF place <= 10 THEN place ELSE 0)
              /\ scores[last_add.difficulty] =
                    Placed(before, Entry(last_add.score, last_add.date),
                           last_add.at)
    /\ ScenarioE = << 80, 50, 30, 10 >>

\* add_score has put an entry among entries of its own score, in a list
\* that was full.
C8_Witness ==
    /\ last_add.done
    /\ Len(last_add.before) = 10
    /\ last_add.at > 1
    /\ last_add.at < 10
    /\ last_add.before[last_add.at - 1].score = last_add.score

\* The lowest score of a list that is not empty.
LowestScore(list) ==
    CHOOSE m \in { list[i].score : i \in 1 .. Len(list) } :
        \A i \in 1 .. Len(list) : m <= list[i].score

\* C9: is_high_score is true exactly when the list has fewer than 10
\* entries or the score is strictly greater than the lowest stored score;
\* with 10 entries a score equal to the lowest does not qualify.
C9_QualifiesIffRoomOrAboveLowest ==
    last_add.done =>
        /\ last_add.qualified =
              (\/ Len(last_add.before) < 10
               \/ last_add.score > LowestScore(last_add.before))
        /\ (/\ Len(last_add.before) = 10
            /\ last_add.score = LowestScore(last_add.before))
              => ~last_add.qualified

\* is_high_score was asked, on a full list, about a score equal to the lowest.
C9_Witness ==
    /\ last_add.done
    /\ Len(last_add.before) = 10
    /\ last_add.score = LowestScore(last_add.before)
    /\ ~last_add.qualified

\* C10: add_score returns the place of the entry it inserted, whenever the
\* truncation kept that entry.
C10_RankIsPlaceOfInsertedEntry ==
    (last_add.done /\ last_add.at > 0) => last_add.rank = last_add.at

\* C11: add_score of a score above the lowest of a list of 10 entries leaves
\* 10 entries: the new entry at one of the places 1 to 10, and around it the
\* first nine of the entries before, in their order; the tenth is dropped.
C11_FullListEvictsLast ==
    (/\ last_add.done
     /\ Len(last_add.before) = 10
     /\ last_add.score > LowestScore(last_add.before))
        => LET after == scores[last_add.difficulty]
               at == last_add.at
           IN  /\ Len(after) = 10
               /\ at \in 1 .. 10
               /\ last_add.rank \in 1 .. 10
               /\ after[at] = Entry(last_add.score, last_add.date)
               /\ [i \in 1 .. 9 |-> after[IF i < at THEN i ELSE i + 1]]
                     = SubSeq(last_add.before, 1, 9)

\* add_score has put a score above the lowest into a full list, between
\* entries that stay.
C11_Witness ==
    /\ last_add.done
    /\ Len(last_add.before) = 10
    /\ last_add.score > LowestScore(last_add.before)
    /\ last_add.at = 3
    /\ Len(scores[last_add.difficulty]) = 10

\* C12: the table _load_scores reads from the file a successful _save_scores
\* wrote is the table saved: the same difficulties, each with the same
\* entries in the same order.
C12_SaveLoadRoundTrip ==
    load_scores(save_scores(file, scores, "ok")) = scores

\* A process has started on the file an earlier process saved its table to,
\* with entries of its own in it.
C12_Witness ==
    /\ adds > 0
    /\ ~last_add.done
    /\ file.exists /\ file.valid
    /\ file = save_scores(file, scores, "ok")
    /\ scores["EASY"] # << >>
    /\ Len(scores["HARD"]) = 10

----------------------------------------------------------------------------
(* Properties of the score: C13 is checked under SpecScreens, C14 under    *)
(* SpecSession.                                                            *)

\* C13: the step that ends a session takes floor(raw score * multiplier) as
\* the final score, the multiplier being 1.0 for EASY, 1.5 for MEDIUM and
\* 2.0 for HARD (40 on MEDIUM gives 60); the list of the session's
\* difficulty gets an entry exactly when that value qualifies, and the
\* entry carries that value.
C13_FinalScoreAtGameOver ==
    [][/\ final_score(40, "MEDIUM") = 60
       /\ (state = "playing" /\ state' = "game_over") =>
             LET tenths == CASE current_difficulty = "EASY" -> 10
                             [] current_difficulty = "MEDIUM" -> 15
                             [] current_difficulty = "HARD" -> 20
                 final == (score * tenths) \div 10
                 list == get(scores, current_difficulty)
                 qualifies == Len(list) < 10 \/ final > LowestScore(list)
             IN  IF qualifies
                 THEN /\ adds' = adds + 1
                      /\ last_add'.done
                      /\ last_add'.score = final
                      /\ last_add'.difficulty = current_difficulty
                      /\ InSeq(Entry(final, now), scores'[current_difficulty])
                      /\ \A d \in Difficulties \ {current_difficulty} :
                            scores'[d] = scores[d]
                 ELSE /\ scores' = scores
                      /\ adds' = adds]_vars

\* A session on MEDIUM has ended with the raw score 10, and 15 went into
\* the list.
C13_Witness ==
    /\ state = "game_over"
    /\ current_difficulty = "MEDIUM"
    /\ score = 10
    /\ last_add.done
    /\ last_add.score = 15
    /\ InSeq(Entry(15, now), scores["MEDIUM"])

\* C14: the raw score is 0 until the first step of a session; a step adds
\* 10 to it when the new head is the food cell and the step reports no
\* collision, and no other step and no key changes it.
C14_RawScoreCountsFood ==
    /\ [](~last_step.moved => score = 0)
    /\ [][score' = score +
               (IF /\ positions' # positions
                   /\ last_step'.ate
                   /\ ~last_step'.collided
                THEN 10 ELSE 0)]_vars

\* The second food of a session has been eaten.
C14_Witness ==
    /\ state = "playing"
    /\ last_step.moved
    /\ last_step.ate
    /\ ~last_step.collided
    /\ score = 20

----------------------------------------------------------------------------
(* Properties of the state machine, checked under SpecScreens.             *)

\* The KEYDOWN event of key is handled.
KeyEvent(key) ==
    /\ running /\ ~exited
    /\ handle_keyboard_input(key)

\* The click on button is handled.
ClickEvent(button) ==
    /\ running /\ ~exited
    /\ handle_button_clicks(button)

\* Events are handled: the loop runs and no quit was seen.
Handling == running /\ ~exited

\* SPACE in the difficulty screen or the game-over screen can create a
\* session with the food on any cell of the grid (while the model allows
\* another session).
C15_ConfirmCreates ==
    (/\ Handling
     /\ state \in {"difficulty_select", "game_over"}
     /\ games < MaxGames)
        => \A c \in Cells :
              ENABLED (/\ KeyEvent("SPACE")
                       /\ games' = games + 1
                       /\ food_position' = c)

\* C15: whatever state an earlier session left behind, a session is created
\* with a body of the one cell (GRID_WIDTH // 2, GRID_HEIGHT // 2), the
\* direction right, no pending growth, the raw score 0 and a food cell of
\* the grid; SPACE or RETURN in the difficulty screen and in the game-over
\* screen, and the play-again button, create one.
C15_SessionCreation ==
    /\ [](C15_ConfirmCreates)
    /\ [][/\ games' # games =>
                /\ games' = games + 1
                /\ state' = "playing"
                /\ has_snake'
                /\ positions' = << << GRID_WIDTH \div 2, GRID_HEIGHT \div 2 >> >>
                /\ direction' = << 1, 0 >>
                /\ ~grow_pending'
                /\ score' = 0
                /\ food_position' \in Cells
          /\ \A key \in {"SPACE", "RETURN"} :
                (state \in {"difficulty_select", "game_over"} /\ KeyEvent(key))
                   => games' = games + 1
          /\ (state = "game_over" /\ ClickEvent("play_again"))
                => games' = games + 1]_vars

\* A second session has been created after a session that scored and ended.
C15_Witness ==
    /\ games = 2
    /\ state = "playing"
    /\ ~last_step.moved
    /\ positions = << StartCell >>
    /\ score = 0
    /\ last_add.done
    /\ last_add.score > 0

\* In MENU the events that lead on can be taken and lead where C16 says.
C16_MenuLeads ==
    /\ (Handling /\ state = "menu") =>
          /\ \A key \in {"SPACE", "RETURN"} :
                ENABLED (KeyEvent(key) /\ state' = "difficulty_select")
          /\ ENABLED (ClickEvent("start") /\ state' = "difficulty_select")
          /\ ENABLED (KeyEvent("l") /\ state' = "leaderboard")
          /\ ENABLED (ClickEvent("leaderboard") /\ state' = "leaderboard")
          /\ ENABLED (KeyEvent("ESCAPE") /\ ~running')
          /\ ENABLED (ClickEvent("quit") /\ ~running')
          /\ ENABLED (QuitEvent /\ ~running')
    /\ (~running /\ ~exited /\ state = "menu") =>
          ENABLED (LoopBodyIdle /\ exited')

\* C16: the process starts in MENU; there SPACE, RETURN and the start button
\* lead to DIFFICULTY_SELECT, l and the leaderboard button to LEADERBOARD,
\* ESCAPE, the quit button and the QUIT event end the loop, and no other
\* key or button and no loop iteration changes the state; nothing creates
\* or changes a session.
C16_MenuTransitions ==
    /\ state = "menu"
    /\ [](C16_MenuLeads)
    /\ [][state = "menu" =>
             /\ \A key \in Keys :
                   KeyEvent(key) =>
                      /\ state' =
                           (CASE key \in {"SPACE", "RETURN"} -> "difficulty_select"
                              [] key = "l" -> "leaderboard"
                              [] OTHER -> "menu")
                      /\ running' = (key # "ESCAPE")
             /\ \A button \in Buttons :
                   ClickEvent(button) =>
                      /\ state' =
                           (CASE button = "start" -> "difficulty_select"
                              [] button = "leaderboard" -> "leaderboard"
                              [] OTHER -> "menu")
                      /\ running' = (button # "quit")
             /\ QuitEvent => (~running' /\ state' = "menu")
             /\ LoopBodyIdle => (state' = "menu" /\ exited' = ~running)
             /\ UNCHANGED << games, has_snake, positions, direction,
                             grow_pending, food_position, score,
                             current_difficulty >>]_vars

\* The loop has ended in MENU before any session was created.
C16_Witness ==
    /\ exited
    /\ state = "menu"
    /\ games = 0

\* The step is one SPACE or RETURN makes.
Confirm == \E key \in {"SPACE", "RETURN"} : KeyEvent(key)

\* C17: in DIFFICULTY_SELECT the keys 1, 2, 3 and the three difficulty
\* buttons set the difficulty and nothing else, the state stays; only SPACE
\* and RETURN create a session, with the difficulty set before, and lead to
\* PLAYING; ESCAPE and the back button lead to MENU and create no session.
C17_PickOnlySetsDifficulty ==
    [][state = "difficulty_select" =>
          /\ \A key \in {"1", "2", "3"} :
                KeyEvent(key) =>
                   /\ current_difficulty' = PickOf(key)
                   /\ state' = "difficulty_select"
                   /\ games' = games
          /\ \A button \in {"easy", "medium", "hard"} :
                (ClickEvent(button) /\ ~Confirm) =>
                   /\ current_difficulty' = PickOf(button)
                   /\ state' = "difficulty_select"
                   /\ games' = games
          /\ \A key \in {"SPACE", "RETURN"} :
                KeyEvent(key) =>
                   /\ games' = games + 1
                   /\ state' = "playing"
                   /\ current_difficulty' = current_difficulty
          /\ (KeyEvent("ESCAPE") \/ ClickEvent("back")) =>
                (state' = "menu" /\ games' = games)
          /\ games' # games => Confirm]_vars

\* In GAME_OVER the events that lead on can be taken and lead where C18
\* says (a new session while the model allows another one).
C18_GameOverLeads ==
    (Handling /\ state = "game_over") =>
       /\ \A key \in {"SPACE", "RETURN"} :
             games < MaxGames
                => ENABLED (KeyEvent(key) /\ state' = "playing")
       /\ games < MaxGames
             => ENABLED (ClickEvent("play_again") /\ state' = "playing")
       /\ ENABLED (KeyEvent("d") /\ state' = "difficulty_select")
       /\ ENABLED (ClickEvent("change_difficulty")
                   /\ state' = "difficulty_select")
       /\ ENABLED (KeyEvent("l") /\ state' = "leaderboard")
       /\ ENABLED (KeyEvent("ESCAPE") /\ state' = "menu")
       /\ ENABLED (ClickEvent("back") /\ state' = "menu")

\* C18: in GAME_OVER, SPACE, RETURN and the play-again button create a
\* session and lead to PLAYING, d and the change-difficulty button lead to
\* DIFFICULTY_SELECT, l to LEADERBOARD, ESCAPE and the back button to
\* MENU; the arrow keys, every other key and button and the loop iterations
\* leave the state GAME_OVER.  The difficulty is the one the ended session
\* was played on: neither the step that ended it nor anything in GAME_OVER
\* changes it.
C18_GameOverTransitions ==
    /\ [](C18_GameOverLeads)
    /\ [][/\ state = "game_over" =>
                /\ \A key \in Keys :
                      KeyEvent(key) =>
                         /\ state' =
                              (CASE key \in {"SPACE", "RETURN"} -> "playing"
                                 [] key = "d" -> "difficulty_select"
                                 [] key = "l" -> "leaderboard"
                                 [] key = "ESCAPE" -> "menu"
                                 [] OTHER -> "game_over")
                         /\ (games' = games + 1) = (key \in {"SPACE", "RETURN"})
                /\ \A button \in Buttons :
                      ClickEvent(button) =>
                         /\ state' =
                              (CASE button = "play_again" -> "playing"
                                 [] button = "change_difficulty" ->
                                       "difficulty_select"
                                 [] button = "back" -> "menu"
                                 [] OTHER -> "game_over")
                         /\ (games' = games + 1) = (button = "play_again")
                /\ LoopBodyIdle => state' = "game_over"
                /\ QuitEvent => state' = "game_over"
                /\ current_difficulty' = current_difficulty
          /\ state' = "game_over" => current_difficulty' = current_difficulty]_vars

\* A session ended on EASY, and the next one was created from GAME_OVER or
\* later, still on EASY.
C18_Witness ==
    /\ games = 2
    /\ state = "playing"
    /\ ~last_step.moved
    /\ current_difficulty = "EASY"
    /\ last_add.done
    /\ last_add.difficulty = "EASY"

\* In LEADERBOARD every tab can be selected, by key and by click, and
\* ESCAPE and the back button lead to MENU.
C19_LeaderboardLeads ==
    (Handling /\ state = "leaderboard") =>
       /\ \A key \in {"1", "2", "3"} :
             ENABLED (KeyEvent(key) /\ leaderboard_difficulty' = PickOf(key))
       /\ \A tab \in Difficulties :
             ENABLED (LoopBodyIdle /\ leaderboard_difficulty' = tab)
       /\ ENABLED (KeyEvent("ESCAPE") /\ state' = "menu")
       /\ ENABLED (ClickEvent("back") /\ state' = "menu")

\* C19: in LEADERBOARD the keys 1, 2, 3 and a click on a tab change the
\* leaderboard difficulty and nothing else: not the difficulty of the game,
\* not a stored list, not the file, not the state; ESCAPE and the back
\* button lead to MENU, whatever state came before LEADERBOARD.
C19_LeaderboardTabsAndBack ==
    /\ [](C19_LeaderboardLeads)
    /\ [][state = "leaderboard" =>
          /\ \A key \in {"1", "2", "3"} :
                KeyEvent(key) =>
                   /\ leaderboard_difficulty' = PickOf(key)
                   /\ state' = "leaderboard"
          /\ LoopBodyIdle => state' = "leaderboard"
          /\ (KeyEvent("ESCAPE") \/ ClickEvent("back")) => state' = "menu"
          /\ state' \in {"leaderboard", "menu"}
          /\ state' = "menu" => leaderboard_difficulty' = leaderboard_difficulty
          /\ UNCHANGED << current_difficulty, scores, file, games, has_snake,
                          positions, direction, grow_pending, food_position,
                          score >>]_vars

\* After a session has ended, the leaderboard shows a list other than that
\* of the game's difficulty.
C19_Witness ==
    /\ state = "leaderboard"
    /\ last_step.collided
    /\ current_difficulty = "EASY"
    /\ leaderboard_difficulty = "HARD"

----------------------------------------------------------------------------
(* The leaderboard and the session.                                        *)

\* C21: the leaderboard, in memory and in the file, changes only in a step
\* that takes the session from PLAYING to GAME_OVER; leaving a session
\* with ESCAPE changes no list and not the file, whatever its raw score.
C21_BoardChangesOnlyAtGameOver ==
    [][/\ (scores' # scores \/ file' # file)
             => /\ state = "playing"
                /\ state' = "game_over"
                /\ last_step'.collided
       /\ (state = "playing" /\ state' # "game_over")
             => UNCHANGED << scores, file, adds >>]_vars

\* A session with a raw score of 10 was left with ESCAPE, and nothing was
\* added to the leaderboard.
C21_Witness ==
    /\ state = "menu"
    /\ has_snake
    /\ score = FOOD_SCORE
    /\ last_step.moved
    /\ ~last_step.collided
    /\ adds = 0
    /\ scores = load_scores(file)

\* C22: the difficulty of a live session never changes: no step taken in
\* PLAYING or GAME_OVER changes current_difficulty, so the step from
\* PLAYING to GAME_OVER uses the multiplier and the list of the difficulty
\* the session was created with.
C22_LiveDifficultyFixed ==
    [][/\ state \in {"playing", "game_over"}
             => current_difficulty' = current_difficulty
       /\ (state = "playing" /\ state' = "game_over" /\ adds' # adds)
             => /\ last_add'.difficulty = current_difficulty
                /\ last_add'.score =
                      (score * get_config(current_difficulty).multiplier10)
                         \div 10
                /\ \A d \in Difficulties \ {current_difficulty} :
                      scores'[d] = scores[d]
                /\ scores'[current_difficulty] # scores[current_difficulty]
      ]_vars

\* A session created with EASY has ended, and its score went to the EASY
\* list.
C22_Witness ==
    /\ state = "game_over"
    /\ current_difficulty = "EASY"
    /\ last_add.done
    /\ last_add.difficulty = "EASY"
    /\ last_add.score = FOOD_SCORE
    /\ Len(scores["EASY"]) = 1

----------------------------------------------------------------------------
(* Failures of the storage.                                                *)

\* C23: loading is never fatal: when the file is missing, cannot be read
\* or cannot be parsed, the process has the three empty lists and goes on
\* to MENU (it ends only after `running` became false).
C23_LoadNeverFatal ==
    (adds = 0 /\ ~(file.exists /\ file.decodable /\ file.valid))
        => /\ scores = EmptyTable
           /\ state # "none"
           /\ exited => ~running

\* C24: a save failure is never fatal: when _save_scores fails during
\* add_score, add_score still returns a rank, the list in memory keeps the
\* new entry, sorted and at most ten long, the session reaches GAME_OVER
\* and the loop goes on as it would have.
C24_SaveFailureKeepsEntry ==
    [][(adds' = adds + 1 /\ file' # save_scores(file, scores', "ok"))
          => LET list == scores'[current_difficulty]
                 entry == Entry(final_score(score, current_difficulty), now)
             IN  /\ state = "playing"
                 /\ state' = "game_over"
                 /\ last_add'.done
                 /\ last_add'.rank \in 1 .. Len(list)
                 /\ InSeq(entry, list)
                 /\ Len(list) = (IF Len(scores[current_difficulty]) < 10
                                 THEN Len(scores[current_difficulty]) + 1
                                 ELSE 10)
                 /\ \A i, j \in 1 .. Len(list) :
                       i < j => list[i].score >= list[j].score
                 /\ running' = running
                 /\ exited' = ~running]_vars

\* A session has ended with a high score whose save failed: the file cannot
\* be parsed, the entry is in the list in memory, and the loop runs.
C24_Witness ==
    /\ state = "game_over"
    /\ last_add.done
    /\ adds = 1
    /\ file.exists /\ ~file.valid
    /\ InSeq(Entry(last_add.score, last_add.date),
             scores[current_difficulty])
    /\ running /\ ~exited

----------------------------------------------------------------------------
(* Unknown difficulty keys.                                                *)

\* C25: an unknown difficulty key falls back to MEDIUM: get_config gives
\* the MEDIUM profile, and add_score and is_high_score called with such a
\* key work on the MEDIUM list: no fourth list appears, the table
\* afterwards is the one add_score gives for MEDIUM, and the score
\* qualifies as it does for MEDIUM.
C25_UnknownKeyUsesMedium ==
    [][/\ get_config(UnknownKey) = get_config("MEDIUM")
       /\ (adds' = adds + 1 /\ last_add'.difficulty \notin Difficulties)
             => /\ DOMAIN scores' \subseteq Difficulties
                /\ scores' = add_score(scores, "MEDIUM", last_add'.score,
                                       "Player", now).scores
                /\ last_add'.qualified =
                      is_high_score(scores, "MEDIUM", last_add'.score)
      ]_vars

----------------------------------------------------------------------------
(* Food.respawn, iteration by iteration.                                   *)

\* The loop of the call has ended because attempts reached MAX_ATTEMPTS.
Exhausted ==
    /\ ~respawn_call.active
    /\ respawn_call.attempts = MAX_ATTEMPTS

C27_RespawnTerminates ==
    /\ [](/\ respawn_call.attempts \in 0 .. MAX_ATTEMPTS
          /\ respawn_call.active => ENABLED NextRespawn
          /\ ~respawn_call.active
                => food_position \in respawn(respawn_call.before,
                                             positions, 0))
    /\ [][/\ respawn_call.active
          /\ \/ ~respawn_call'.active
             \/ respawn_call'.attempts = respawn_call.attempts + 1
          /\ respawn_call.attempts = MAX_ATTEMPTS
                => /\ ~respawn_call'.active
                   /\ respawn_call'.new_position = respawn_call.new_position
         ]_vars

\* The call has ended on a body that covers the whole grid, after
\* MAX_ATTEMPTS samples.
C27_Witness ==
    /\ Exhausted
    /\ Len(positions) = GRID_WIDTH * GRID_HEIGHT
    /\ \A c \in Cells : InSeq(c, positions)

----------------------------------------------------------------------------
(* The end of the process.                                                 *)

\* C28: the process ends only after an explicit quit: `running` becomes
\* false only by a QUIT event, by ESCAPE in MENU or by the quit button of
\* MENU, and the loop ends only when `running` is false; leaving a screen
\* with ESCAPE or back, a collision, a failure to load or to save and the
\* exhaustion of the food placement never end the process.
C28_EndsOnlyOnQuit ==
    /\ [](exited => ~running)
    /\ [][/\ (running /\ ~running')
                => \/ QuitEvent
                   \/ state = "menu" /\ KeyEvent("ESCAPE")
                   \/ state = "menu" /\ ClickEvent("quit")
          /\ (~exited /\ exited') => ~running
          /\ ~running => ~running'
         ]_vars

----------------------------------------------------------------------------
(* One step of the snake.                                                  *)

\* C29: a step computes the new head as head + direction and puts it in
\* front of the body; the last cell is dropped exactly when no growth was
\* pending, otherwise move clears grow_pending (after the step the flag is
\* set only when this step ate).  A body of one cell without growth becomes
\* the new head alone: [(5,5)] moving right becomes [(6,5)].
C29_MoveShiftsBody ==
    [][/\ move(<< << 5, 5 >> >>, RIGHT, FALSE).positions = << << 6, 5 >> >>
       /\ positions' # positions
             => LET new_head == << positions[1][1] + direction[1],
                                   positions[1][2] + direction[2] >>
                    whole == << new_head >> \o positions
                IN  /\ positions' =
                          (IF grow_pending THEN whole
                           ELSE [i \in 1 .. Len(positions) |-> whole[i]])
                    /\ ~move(positions, direction, grow_pending).grow_pending
                    /\ (Len(positions) = 1 /\ ~grow_pending)
                          => positions' = << new_head >>
                    /\ grow_pending' =
                          (last_step'.ate /\ ~last_step'.collided)
      ]_vars

\* A step with growth pending has made the body two cells long and left
\* the flag cleared.
C29_Witness ==
    /\ state = "playing"
    /\ last_step.moved
    /\ last_step.delta = 1
    /\ ~last_step.ate
    /\ ~grow_pending
    /\ Len(positions) = 2

\* C30: a step in PLAYING leads to GAME_OVER exactly when, after the move
\* with its tail removal, the new head is outside the grid or equals
\* another cell of the body; such a step skips the food test, so the raw
\* score and the food stay as they were; after any other step the state is
\* still PLAYING.
C30_GameOverIffCollision ==
    [][positions' # positions
          => LET head == positions'[1]
                 outside == \/ head[1] < 0 \/ head[1] >= GRID_WIDTH
                            \/ head[2] < 0 \/ head[2] >= GRID_HEIGHT
                 on_body == \E i \in 2 .. Len(positions') :
                               positions'[i] = head
             IN  /\ state = "playing"
                 /\ state' = (IF outside \/ on_body THEN "game_over"
                              ELSE "playing")
                 /\ state' = "game_over"
                       => /\ score' = score
                          /\ food_position' = food_position
                          /\ Len(positions') =
                                Len(positions) + (IF grow_pending THEN 1 ELSE 0)
      ]_vars

\* A session has ended by the head running into the body, on the cell of
\* the food, and the score is the one of the food eaten before.
C30_Witness ==
    /\ state = "game_over"
    /\ last_step.collided
    /\ positions[1] \in Cells
    /\ \E i \in 2 .. Len(positions) : positions[i] = positions[1]
    /\ last_step.ate
    /\ food_position = positions[1]

----------------------------------------------------------------------------
(* Requests to turn.                                                       *)

\* C31: a request for the opposite of the current direction leaves the
\* direction as it is and plays no 'turn' sound; 'turn' is played exactly
\* for the requests that are accepted and differ from the current
\* direction, and a request for the current direction is accepted without
\* a sound.  A request is a step in PLAYING that keeps the body and the
\* state: a directional KEYDOWN, whose direction is intent afterwards.
C31_ReversalDroppedSilently ==
    [][(state = "playing" /\ state' = "playing" /\ positions' = positions)
          => LET req == intent'
             IN  /\ req \in {UP, DOWN, LEFT, RIGHT}
                 /\ req = Neg(direction)
                       => /\ direction' = direction
                          /\ ~turn_sound(direction, req)
                 /\ req # Neg(direction) => direction' = req
                 /\ turn_sound(direction, req)
                       = (direction' = req /\ direction' # direction)
                 /\ req = direction => ~turn_sound(direction, req)
      ]_vars

\* The last request was for the opposite of the direction, which is still
\* the direction of the snake.
C31_Witness ==
    /\ state = "playing"
    /\ intent # NoDir
    /\ intent = Neg(direction)
    /\ ~last_step.moved

----------------------------------------------------------------------------
(* What the screens leave alone.                                           *)

\* The simulation state of the session.
Simulation ==
    << positions, food_position, direction, grow_pending, score >>

----------------------------------------------------------------------------
(* The game-over screen.                                                   *)

\* C33: the new-high-score indication of a finished session is true exactly
\* when its final score qualified and was inserted at the step from PLAYING
\* to GAME_OVER, and it keeps that value while the state is GAME_OVER.
C33_IndicationAgreesWithInsertion ==
    [][/\ (state = "playing" /\ state' = "game_over")
             => new_high_score' = (adds' = adds + 1)
       /\ (state = "game_over" /\ state' = "game_over")
             => new_high_score' = new_high_score
      ]_vars

----------------------------------------------------------------------------
(* The table in memory and the file.                                       *)

\* What a process would load from the file is the table in memory.
Synced == load_scores(file) = scores

\* C34: as long as no read and no write has failed, the persisted
\* leaderboard equals the one in memory: a process has what it loaded, and
\* add_score writes the whole table before it returns, so whenever the
\* process has not added yet or its last save succeeded, the file holds
\* the table in memory; a missing file holds the three empty lists.
C34_FileEqualsMemory ==
    (~last_add.done \/ last_add.saved)
        => /\ Synced
           /\ last_add.done
                 => /\ file.exists /\ file.decodable /\ file.valid
                    /\ file.data = json_dump(scores)

\* Two scores were added and saved, and the file holds the table in memory
\* with both.
C34_Witness ==
    /\ adds >= 2
    /\ last_add.done
    /\ last_add.saved
    /\ file.exists /\ file.valid
    /\ file.data = json_dump(scores)
    /\ Synced
    /\ scores["EASY"] # << >>

----------------------------------------------------------------------------
(* add_score and is_high_score together.                                   *)

\* C35: is_high_score and add_score agree: the entry add_score appends is
\* in the list afterwards exactly when is_high_score was true before the
\* call, and when it was false the list is as it was before.
C35_InsertedIffQualified ==
    last_add.done
        => /\ (last_add.at > 0) = last_add.qualified
           /\ last_add.qualified
                 => /\ last_add.at \in 1 .. Len(scores[last_add.difficulty])
                    /\ scores[last_add.difficulty][last_add.at]
                          = Entry(last_add.score, last_add.date)
           /\ ~last_add.qualified
                 => scores[last_add.difficulty] = last_add.before

\* add_score was called with a score that did not qualify, below the lowest
\* of a full list, and the list is as before.
C35_Witness ==
    /\ last_add.done
    /\ ~last_add.qualified
    /\ last_add.at = 0
    /\ Len(last_add.before) = 10
    /\ last_add.score < LowestScore(last_add.before)
    /\ scores[last_add.difficulty] = last_add.before

\* C36: add_score changes the list of its difficulty only: the table
\* afterwards has the lists of the other difficulties as they were.
C36_OtherListsUnchanged ==
    [][adds' = adds + 1
          => /\ DOMAIN scores' = DOMAIN scores \cup {last_add'.difficulty}
             /\ \A k \in DOMAIN scores \ {last_add'.difficulty} :
                   scores'[k] = scores[k]
             /\ scores'[last_add'.difficulty] # last_add'.before
                   => last_add'.at > 0
      ]_vars

\* A score was added to the EASY list, and the nine entries of MEDIUM and
\* the ten of HARD are those the process started with.
C36_Witness ==
    /\ last_add.done
    /\ last_add.difficulty = "EASY"
    /\ scores["EASY"] # << >>
    /\ scores["MEDIUM"] = StoredTable["MEDIUM"]
    /\ scores["HARD"] = StoredTable["HARD"]

----------------------------------------------------------------------------
(* The length of the body and the score.                                   *)

\* C37: while a session exists (PLAYING or GAME_OVER), the length of the
\* body, plus one when growth is pending, is 1 + raw score / 10, and the
\* raw score is a multiple of 10.
C37_LengthMatchesScore ==
    state \in {"playing", "game_over"}
        => /\ score % FOOD_SCORE = 0
           /\ Len(positions) + (IF grow_pending THEN 1 ELSE 0)
                 = 1 + score \div FOOD_SCORE

\* The second food has just been eaten: two cells, growth pending, raw
\* score 20.
C37_Witness ==
    /\ state = "playing"
    /\ grow_pending
    /\ Len(positions) = 2
    /\ score = 2 * FOOD_SCORE
    /\ last_step.ate

----------------------------------------------------------------------------
(* One entry per session.                                                  *)

\* C38: a session contributes at most one leaderboard entry: add_score is
\* called only by the step that takes the session from PLAYING to
\* GAME_OVER, never by a loop iteration in GAME_OVER, and PLAYING is
\* entered only by creating a session; so the process has added at most
\* one entry per session created, and none yet for a session in PLAYING.
C38_OneEntryPerSession ==
    /\ [](/\ adds <= games
          /\ state = "playing" => adds < games)
    /\ [][/\ adds' # adds
                => /\ adds' = adds + 1
                   /\ games' = games
                   /\ state = "playing"
                   /\ state' = "game_over"
                   /\ positions' # positions
          /\ state = "game_over" => adds' = adds
          /\ (state # "playing" /\ state' = "playing")
                => games' = games + 1
         ]_vars

\* The second session of the process has ended, and each of the two has
\* its entry.
C38_Witness ==
    /\ state = "game_over"
    /\ games = 2
    /\ adds = 2
    /\ last_add.done

----------------------------------------------------------------------------
(* A session left alone.                                                   *)

\* The longest straight run inside the grid.
MaxStraight ==
    IF GRID_WIDTH > GRID_HEIGHT THEN GRID_WIDTH ELSE GRID_HEIGHT

\* C39: from any PLAYING state, when steps go on and no key arrives any
\* more, the session reaches GAME_OVER after at most
\* max(GRID_WIDTH, GRID_HEIGHT) steps: a session still in PLAYING has taken
\* fewer steps than that since the last key and can take another, and a
\* step leaves it in PLAYING or takes it to GAME_OVER.
C39_LeftAloneEndsInGameOver ==
    /\ [](/\ state = "playing" => ticks < MaxStraight
          /\ ticks <= MaxStraight
          /\ (state = "playing" /\ (grow_pending => Len(positions) < MaxLen))
                => ENABLED StraightStep)
    /\ [][ticks' # ticks
             => /\ ticks' = ticks + 1
                /\ state = "playing"
                /\ state' \in {"playing", "game_over"}
                /\ direction' = direction
                /\ positions'[1] = << positions[1][1] + direction[1],
                                      positions[1][2] + direction[2] >>
         ]_vars

\* A session that was steered upwards and then left alone has ended at the
\* top wall, at the latest step the bound allows for its run.
C39_Witness ==
    /\ state = "game_over"
    /\ ticks >= 2
    /\ direction = UP
    /\ positions[1][2] = -1
    /\ last_step.collided

----------------------------------------------------------------------------
(* After a quit.                                                           *)

\* C40: once a quit was received in a loop iteration (`running` is false),
\* no step of the simulation is taken and the leaderboard is not changed
\* before the process ends: the rest of the iteration only ends the loop.
C40_NothingAfterQuit ==
    [][~running
          => /\ UNCHANGED << positions, direction, grow_pending,
                             food_position, score, state >>
             /\ UNCHANGED << scores, file, adds >>
             /\ exited'
      ]_vars

====
